---- MODULE Spec2Model ----
\* Model of the password generator app (src/script.js, class PasswordGenerator,
\* second revision, lines 344-725): the generator, the strength scorer and the
\* UI state they drive (slider, checkboxes, output field, deferred display
\* timers, strength meter, generate button, clipboard).
EXTENDS Integers, Sequences, FiniteSets, TLC

\* ---------------------------------------------------------------------------
\* Character sets (generatePassword, lines 479-482)
Uppercase == <<"A", "B", "C", "D", "E", "F", "G", "H", "I", "J", "K", "L", "M", "N", "O", "P", "Q", "R", "S", "T", "U", "V", "W", "X", "Y", "Z">>
Lowercase == <<"a", "b", "c", "d", "e", "f", "g", "h", "i", "j", "k", "l", "m", "n", "o", "p", "q", "r", "s", "t", "u", "v", "w", "x", "y", "z">>
Numbers == <<"0", "1", "2", "3", "4", "5", "6", "7", "8", "9">>
Symbols == <<"!", "@", "#", "$", "%", "^", "&", "*", "(", ")", "_", "+", "-", "=", "[", "]", "{", "}", "|", ";", ":", ",", ".", "<", ">", "?">>

\* Regex character classes of calculatePasswordStrength (lines 575-578)
UpperRe == {"A", "B", "C", "D", "E", "F", "G", "H", "I", "J", "K", "L", "M", "N", "O", "P", "Q", "R", "S", "T", "U", "V", "W", "X", "Y", "Z"}
LowerRe == {"a", "b", "c", "d", "e", "f", "g", "h", "i", "j", "k", "l", "m", "n", "o", "p", "q", "r", "s", "t", "u", "v", "w", "x", "y", "z"}
DigitRe == {"0", "1", "2", "3", "4", "5", "6", "7", "8", "9"}
\* Mutant: "-" left unescaped, so "+-=" becomes the range "+".."="
SymbolReUnescapedDash == {"!", "@", "#", "$", "%", "^", "&", "*", "(", ")", "_", "+", "-", "=", "[", "]", "{", "}", "|", ";", ":", ",", ".", "<", ">", "?", "/", "0", "1", "2", "3", "4", "5", "6", "7", "8", "9"}

SymbolRe == {"!", "@", "#", "$", "%", "^", "&", "*", "(", ")", "_", "+", "-", "=", "[", "]", "{", "}", "|", ";", ":", ",", ".", "<", ">", "?"}

\* Placeholder text tested by updateStrengthMeter and copyPassword (lines 606, 652)
Placeholder == <<"P", "l", "e", "a", "s", "e", " ", "s", "e", "l", "e", "c", "t", " ", "a", "t", " ", "l", "e", "a", "s", "t", " ", "o", "n", "e", " ", "o", "p", "t", "i", "o", "n">>

\* Defaults applied by the first generate click (handleGenerateClick, lines 437-441)
FirstClickLength == 8

\* Number of .strength-bar elements (the HTML page; the score range 0-4)
NumBars == 4

\* ---------------------------------------------------------------------------
\* Bounds
MaxLen == 2            \* slider values explored by input events
MaxTimers == 2         \* pending display timeouts explored
MaxInstances == 2      \* PasswordGenerator instances (page + generateTestPassword)
MaxCopies == 2         \* copyPassword calls awaiting their clipboard write
MaxEvents == 4         \* user events per behaviour in the UI spec
UIDrawSpread == 1      \* Math.random outcomes per character draw in the UI spec
UIShuffleSpread == 1   \* Math.random outcomes per shuffle swap in the UI spec
MaxGenLen == 5         \* lengths given to the generator in GenSpec
GenDrawSpread == 2     \* Math.random outcomes per character draw in GenSpec
GenShuffleSpread == 2  \* Math.random outcomes per shuffle swap in GenSpec
MaxScoreLen == 17      \* string lengths given to the scorer in ScoreSpec
MaxShuffleLen == 4     \* string lengths given to shuffleString in ShuffleSpec

Classes == {"upper", "lower", "numbers", "symbols"}

Min(a, b) == IF a < b THEN a ELSE b

\* Math.floor(Math.random() * n): an index in 0..n-1; `s` evenly spaced outcomes
RandIdx(n, s) == IF s <= 1 \/ n <= 1 THEN {0}
                 ELSE {(k * (n - 1)) \div (s - 1) : k \in 0..(s - 1)}

\* ---------------------------------------------------------------------------
\* Generator (generatePassword, lines 484-510; shuffleString, lines 525-532)
\* Mutant: the symbol set is appended whatever the checkboxes say
AvailableCharsAllSymbols(chk) ==
  (IF chk["upper"] THEN Uppercase ELSE <<>>) \o
  (IF chk["lower"] THEN Lowercase ELSE <<>>) \o
  (IF chk["numbers"] THEN Numbers ELSE <<>>) \o
  Symbols

AvailableChars(chk) ==
  (IF chk["upper"] THEN Uppercase ELSE <<>>) \o
  (IF chk["lower"] THEN Lowercase ELSE <<>>) \o
  (IF chk["numbers"] THEN Numbers ELSE <<>>) \o
  (IF chk["symbols"] THEN Symbols ELSE <<>>)

SelectedTypes(chk) ==
  (IF chk["upper"] THEN <<Uppercase>> ELSE <<>>) \o
  (IF chk["lower"] THEN <<Lowercase>> ELSE <<>>) \o
  (IF chk["numbers"] THEN <<Numbers>> ELSE <<>>) \o
  (IF chk["symbols"] THEN <<Symbols>> ELSE <<>>)

\* selectedTypes.forEach: one random character of each selected set, in order
RECURSIVE GuaranteedChars(_, _, _)
GuaranteedChars(pw, types, ds) ==
  IF types = <<>> THEN {pw}
  ELSE UNION {GuaranteedChars(Append(pw, Head(types)[k + 1]), Tail(types), ds) :
                k \in RandIdx(Len(Head(types)), ds)}

\* for (let i = password.length; i < length; i++) password += availableChars[...]
RECURSIVE FillRest(_, _, _, _)
FillRest(pw, length, avail, ds) ==
  IF Len(pw) >= length THEN {pw}
  ELSE UNION {FillRest(Append(pw, avail[k + 1]), length, avail, ds) :
                k \in RandIdx(Len(avail), ds)}

Swap(arr, i, j) == [arr EXCEPT ![i + 1] = arr[j + 1], ![j + 1] = arr[i + 1]]

\* Mutant: j drawn from 0..i-1 (Sattolo's variant: the element always moves)
RECURSIVE ShuffleFromSattolo(_, _, _)
ShuffleFromSattolo(arr, i, ss) ==
  IF i <= 0 THEN {arr}
  ELSE UNION {ShuffleFromSattolo(Swap(arr, i, j), i - 1, ss) : j \in RandIdx(i, ss)}

\* for (let i = arr.length - 1; i > 0; i--) { j = floor(random * (i + 1)); swap }
RECURSIVE ShuffleFrom(_, _, _)
ShuffleFrom(arr, i, ss) ==
  IF i <= 0 THEN {arr}
  ELSE UNION {ShuffleFrom(Swap(arr, i, j), i - 1, ss) : j \in RandIdx(i + 1, ss)}

shuffleString(str, ss) == ShuffleFrom(str, Len(str) - 1, ss)

\* Mutant: no guaranteed character per selected type, only the fill loop
GeneratedPasswordsNoGuarantee(length, chk, ds, ss) ==
  UNION {shuffleString(p, ss) : p \in FillRest(<<>>, length, AvailableChars(chk), ds)}

\* The passwords the non-error branch of generatePassword can build
GeneratedPasswords(length, chk, ds, ss) ==
  UNION {shuffleString(p, ss) :
           p \in UNION {FillRest(g, length, AvailableChars(chk), ds) :
                          g \in GuaranteedChars(<<>>, SelectedTypes(chk), ds)}}

\* ---------------------------------------------------------------------------
\* Strength scorer (calculatePasswordStrength, lines 566-592)
Test(p, re) == \E i \in 1..Len(p) : p[i] \in re

calculatePasswordStrength(p) ==
  LET lenScore == (IF Len(p) >= 8 THEN 1 ELSE 0) + (IF Len(p) >= 12 THEN 1 ELSE 0)
                  + (IF Len(p) >= 16 THEN 1 ELSE 0)
      hasUppercase == Test(p, UpperRe)
      hasLowercase == Test(p, LowerRe)
      hasNumbers == Test(p, DigitRe)
      hasSymbols == Test(p, SymbolRe)
      varietyCount == (IF hasUppercase THEN 1 ELSE 0) + (IF hasLowercase THEN 1 ELSE 0)
                      + (IF hasNumbers THEN 1 ELSE 0) + (IF hasSymbols THEN 1 ELSE 0)
      score == lenScore + (varietyCount - 1)
               + (IF hasUppercase /\ hasLowercase THEN 1 ELSE 0)
               + (IF hasNumbers /\ hasSymbols THEN 1 ELSE 0)
  IN Min(score, 4)

\* ---------------------------------------------------------------------------
\* Strength meter (updateStrengthMeter, lines 599-643): text and bar classes,
\* judged on the password field's CURRENT value
StrengthText(strength) ==
  CASE strength = 0 -> "Too Weak"
    [] strength = 1 -> "Weak"
    [] strength = 2 -> "Medium"
    [] strength = 3 -> "Strong"
    [] OTHER -> "Very Strong"

StrengthLevel(strength) ==
  CASE strength = 0 -> "weak"
    [] strength = 1 -> "weak"
    [] strength = 2 -> "medium"
    [] strength = 3 -> "strong"
    [] OTHER -> "very-strong"

HasPassword(out) == out # <<>> /\ out # Placeholder

updateStrengthMeter(strength, out) ==
  [text |-> IF HasPassword(out) THEN StrengthText(strength) ELSE "",
   bars |-> [i \in 1..NumBars |->
               IF HasPassword(out) /\ i - 1 < strength THEN StrengthLevel(strength) ELSE ""]]

\* animatePasswordChange (lines 539-558): the value is written by a 100 ms timeout
animatePasswordChange(newPassword, out, tms) ==
  IF out = newPassword THEN tms ELSE Append(tms, newPassword)

\* Mutant: the empty-selection check runs before the zero-length check
GenEffectsCheckOptionsFirst(length, chk, out, tms, ds, ss) ==
  IF \A c \in Classes : ~chk[c]
  THEN {[output |-> out, timers |-> tms,
         meter |-> updateStrengthMeter(0, out), disabled |-> TRUE]}
  ELSE IF length = 0
  THEN {[output |-> <<>>, timers |-> tms,
         meter |-> updateStrengthMeter(0, <<>>), disabled |-> FALSE]}
  ELSE {[output |-> out, timers |-> animatePasswordChange(pw, out, tms),
         meter |-> updateStrengthMeter(calculatePasswordStrength(pw), out),
         disabled |-> FALSE] : pw \in GeneratedPasswords(length, chk, ds, ss)}

\* generatePassword (lines 453-517): the possible outcomes on the UI state
GenEffects(length, chk, out, tms, ds, ss) ==
  IF length = 0
  THEN {[output |-> <<>>, timers |-> tms,
         meter |-> updateStrengthMeter(0, <<>>), disabled |-> FALSE]}
  ELSE IF \A c \in Classes : ~chk[c]
  THEN {[output |-> out, timers |-> tms,
         meter |-> updateStrengthMeter(0, out), disabled |-> TRUE]}
  ELSE {[output |-> out, timers |-> animatePasswordChange(pw, out, tms),
         meter |-> updateStrengthMeter(calculatePasswordStrength(pw), out),
         disabled |-> FALSE] : pw \in GeneratedPasswords(length, chk, ds, ss)}

\* ---------------------------------------------------------------------------
VARIABLES
  slider,              \* lengthSlider.value
  checked,             \* the four checkboxes' .checked
  output,              \* passwordOutput.value
  timers,              \* pending animatePasswordChange timeouts (FIFO, equal delays)
  strengthText,        \* strengthText.textContent
  bars,                \* strengthBars: level class of each filled bar, "" if unfilled
  generateBtnDisabled, \* generateBtn.disabled
  isFirstGenerate,     \* this.isFirstGenerate of every PasswordGenerator on the page,
                       \* in creation order (the page's, then generateTestPassword's)
  clipboard,           \* text last written to the clipboard by copyPassword
  pendingCopies,       \* values read by copyPassword calls still awaiting their write
  uncaughtError,       \* an exception escaped an event listener
  gLen, gChk, gOut, gDone,  \* GenSpec: generatePassword's inputs and password
  sIn, sOut, sDone,         \* ScoreSpec: calculatePasswordStrength's input and score
  hRan,                     \* HandlerSpec / ClickSpec: the handler has run
  shIn, shOut, shDone,      \* ShuffleSpec: shuffleString's input and result
  cIn, cOut, cDone,         \* CharSpec: a character and the scorer's class tests on it
  events                    \* user events delivered so far (explored up to MaxEvents)

uiVars == <<slider, checked, output, timers, strengthText, bars,
            generateBtnDisabled, isFirstGenerate, clipboard, pendingCopies, uncaughtError>>
genVars == <<gLen, gChk, gOut, gDone>>
scoreVars == <<sIn, sOut, sDone>>
auxVars == <<shIn, shOut, shDone, cIn, cOut, cDone>>
appVars == <<uiVars, genVars, scoreVars, hRan, auxVars>>
vars == <<appVars, events>>

ChkSpace == [Classes -> BOOLEAN]

\* The DOM state generatePassword reads and writes
UIRec == [slider |-> slider, checked |-> checked, output |-> output, timers |-> timers,
          text |-> strengthText, bars |-> bars, disabled |-> generateBtnDisabled]

\* generatePassword (lines 453-517) on a DOM state: its possible results
generatePassword(r) ==
  {[r EXCEPT !.output = e.output, !.timers = e.timers, !.text = e.meter.text,
             !.bars = e.meter.bars, !.disabled = e.disabled] :
     e \in GenEffects(r.slider, r.checked, r.output, r.timers, UIDrawSpread, UIShuffleSpread)}

\* One listener per PasswordGenerator instance: each calls its generatePassword in turn
RECURSIVE GenerateEach(_, _)
GenerateEach(S, n) ==
  IF n = 0 THEN S ELSE GenerateEach(UNION {generatePassword(r) : r \in S}, n - 1)

SetUI(r) ==
  /\ Len(r.timers) <= MaxTimers
  /\ slider' = r.slider
  /\ checked' = r.checked
  /\ output' = r.output
  /\ timers' = r.timers
  /\ strengthText' = r.text
  /\ bars' = r.bars
  /\ generateBtnDisabled' = r.disabled

\* A single generatePassword call with the given slider/checkbox values
ApplyGenerate(len, chk) ==
  \E r \in generatePassword([UIRec EXCEPT !.slider = len, !.checked = chk]) : SetUI(r)

GenIdle == gLen = 0 /\ gChk = [c \in Classes |-> FALSE] /\ gOut = <<>> /\ gDone = FALSE
ScoreIdle == sIn = <<>> /\ sOut = 0 /\ sDone = FALSE
AuxIdle == shIn = <<>> /\ shOut = <<>> /\ shDone = FALSE
           /\ cIn = "" /\ cOut = [c \in Classes |-> FALSE] /\ cDone = FALSE

\* DOMContentLoaded -> new PasswordGenerator() (lines 349-355, 730-732): page
\* values, then generatePassword()
Init ==
  /\ slider \in 0..MaxLen
  /\ checked \in ChkSpace
  /\ isFirstGenerate = <<TRUE>>
  /\ clipboard = <<>>
  /\ pendingCopies = <<>>
  /\ uncaughtError = FALSE
  /\ \E r \in generatePassword([slider |-> slider, checked |-> checked, output |-> <<>>,
                                timers |-> <<>>, text |-> "",
                                bars |-> [i \in 1..NumBars |-> ""], disabled |-> FALSE]) :
       /\ output = r.output
       /\ timers = r.timers
       /\ strengthText = r.text
       /\ bars = r.bars
       /\ generateBtnDisabled = r.disabled
  /\ GenIdle
  /\ ScoreIdle
  /\ hRan = FALSE
  /\ AuxIdle
  /\ events = 0

\* lengthSlider 'input' listeners (lines 390-393), one per instance
SliderInput ==
  /\ \E v \in (0..MaxLen) \ {slider} :
       \E r \in GenerateEach({[UIRec EXCEPT !.slider = v]}, Len(isFirstGenerate)) : SetUI(r)
  /\ UNCHANGED <<isFirstGenerate, clipboard, pendingCopies, genVars, scoreVars, hRan,
                 auxVars, uncaughtError>>

\* checkbox 'change' listeners (lines 396-399), one per instance
CheckboxChange ==
  /\ \E c \in Classes :
       \E r \in GenerateEach({[UIRec EXCEPT !.checked = [checked EXCEPT ![c] = ~@]]},
                             Len(isFirstGenerate)) : SetUI(r)
  /\ UNCHANGED <<isFirstGenerate, clipboard, pendingCopies, genVars, scoreVars, hRan,
                 auxVars, uncaughtError>>

FirstClickChecked == [upper |-> TRUE, lower |-> TRUE, numbers |-> TRUE, symbols |-> FALSE]

\* Mutant: the defaults are applied on every click (the flag is ignored)
ClickInstanceAlwaysDefaults(p, k) ==
  LET r0 == [p.ui EXCEPT !.slider = FirstClickLength, !.checked = FirstClickChecked]
  IN {[ui |-> r, flags |-> [p.flags EXCEPT ![k] = FALSE]] : r \in generatePassword(r0)}

\* handleGenerateClick (lines 434-447) of instance k on [ui, flags]
ClickInstance(p, k) ==
  LET r0 == IF p.flags[k]
            THEN [p.ui EXCEPT !.slider = FirstClickLength, !.checked = FirstClickChecked]
            ELSE p.ui
  IN {[ui |-> r, flags |-> [p.flags EXCEPT ![k] = FALSE]] : r \in generatePassword(r0)}

RECURSIVE ClickFrom(_, _, _)
ClickFrom(P, k, n) ==
  IF k > n THEN P ELSE ClickFrom(UNION {ClickInstance(p, k) : p \in P}, k + 1, n)

\* a click on the generate button runs every instance's listener in turn; a
\* disabled button delivers no click
GenerateClickEffect ==
  /\ ~generateBtnDisabled
  /\ \E p \in ClickFrom({[ui |-> UIRec, flags |-> isFirstGenerate]}, 1, Len(isFirstGenerate)) :
       /\ SetUI(p.ui)
       /\ isFirstGenerate' = p.flags
  /\ UNCHANGED <<clipboard, pendingCopies, genVars, scoreVars, auxVars, uncaughtError>>

\* generateBtn 'click' listeners (line 405)
handleGenerateClick ==
  /\ GenerateClickEffect
  /\ UNCHANGED hRan

\* copyBtn 'click' -> copyPassword (lines 402, 649-654), once per instance: each
\* call reads the field and, if it holds a password, awaits the clipboard write
copyPassword ==
  /\ HasPassword(output)
  /\ Len(pendingCopies) + Len(isFirstGenerate) <= MaxCopies
  /\ pendingCopies' = pendingCopies \o [k \in 1..Len(isFirstGenerate) |-> output]
  /\ UNCHANGED <<slider, checked, output, timers, strengthText, bars, clipboard,
                 generateBtnDisabled, isFirstGenerate, genVars, scoreVars, hRan, auxVars,
                 uncaughtError>>

RemoveAt(s, i) == [j \in 1..(Len(s) - 1) |-> IF j < i THEN s[j] ELSE s[j + 1]]

\* a pending copyPassword resumes (lines 656-662, 670-688), in any order: the
\* clipboard API or, on rejection, the execCommand fallback writes the value it
\* read; if both fail nothing is written
CopyComplete ==
  /\ \E i \in 1..Len(pendingCopies) :
       /\ pendingCopies' = RemoveAt(pendingCopies, i)
       /\ clipboard' \in {pendingCopies[i], clipboard}
  /\ UNCHANGED <<slider, checked, output, timers, strengthText, bars,
                 generateBtnDisabled, isFirstGenerate, genVars, scoreVars, hRan, auxVars,
                 uncaughtError>>

\* the 100 ms timeout of animatePasswordChange fires (lines 546-557)
TimerFire ==
  /\ timers # <<>>
  /\ output' = Head(timers)
  /\ timers' = Tail(timers)
  /\ UNCHANGED <<slider, checked, strengthText, bars, generateBtnDisabled, isFirstGenerate,
                 clipboard, pendingCopies, genVars, scoreVars, hRan, auxVars, uncaughtError>>

\* document 'keydown' listeners (lines 408-419), one per instance. Each
\* destructures preventDefault from the event and calls it detached:
\* Event.prototype.preventDefault then runs on a non-Event receiver and throws a
\* TypeError, so neither generatePassword (Ctrl/Cmd+Enter) nor copyPassword
\* (Ctrl/Cmd+C on the field) is reached; any other key does nothing.
KeyDown(ctrlKey, metaKey, key, outputFocused) ==
  IF (ctrlKey \/ metaKey) /\ (key = "Enter" \/ (key = "c" /\ outputFocused))
  THEN /\ uncaughtError' = TRUE
       /\ UNCHANGED <<slider, checked, output, timers, strengthText, bars,
                      generateBtnDisabled, isFirstGenerate, clipboard, pendingCopies,
                      genVars, scoreVars, hRan, auxVars>>
  ELSE UNCHANGED appVars

Keys == {"Enter", "c", "x"}

KeyPress ==
  \E ctrlKey, metaKey, outputFocused \in BOOLEAN, key \in Keys :
     KeyDown(ctrlKey, metaKey, key, outputFocused)

\* new PasswordGenerator() on a live page (constructor, lines 349-355; the class
\* is a global binding, callable from the console): initializeElements binds the
\* same elements, bindEvents adds one more listener of each kind, isFirstGenerate
\* starts TRUE and generatePassword runs once on the current values
NewPasswordGenerator ==
  /\ Len(isFirstGenerate) < MaxInstances
  /\ \E r \in generatePassword(UIRec) : SetUI(r)
  /\ isFirstGenerate' = Append(isFirstGenerate, TRUE)
  /\ UNCHANGED <<clipboard, pendingCopies, genVars, scoreVars, hRan, auxVars, uncaughtError>>

\* window.passwordGenerator.generateTestPassword(length, options) (lines 748-756):
\* new PasswordGenerator() as above, then the given length and options (each
\* defaulting to true) and one more generatePassword; lengths are drawn from the
\* slider range
generateTestPassword ==
  /\ Len(isFirstGenerate) < MaxInstances
  /\ \E length \in 0..MaxLen, options \in ChkSpace :
       \E r1 \in generatePassword(UIRec) :
          \E r2 \in generatePassword([r1 EXCEPT !.slider = length, !.checked = options]) :
             SetUI(r2)
  /\ isFirstGenerate' = Append(isFirstGenerate, TRUE)
  /\ UNCHANGED <<clipboard, pendingCopies, genVars, scoreVars, hRan, auxVars, uncaughtError>>

\* a user event (slider, checkbox, click, key, console call) is delivered
UserEvent(A) == events < MaxEvents /\ events' = events + 1 /\ A

Next == \/ UserEvent(SliderInput)
        \/ UserEvent(CheckboxChange)
        \/ UserEvent(handleGenerateClick)
        \/ UserEvent(copyPassword)
        \/ UserEvent(KeyPress)
        \/ UserEvent(NewPasswordGenerator)
        \/ UserEvent(generateTestPassword)
        \/ CopyComplete /\ UNCHANGED events
        \/ TimerFire /\ UNCHANGED events

Spec == Init /\ [][Next]_vars

\* ---------------------------------------------------------------------------
\* GenSpec: generatePassword's non-error branch applied to bounded inputs
UIIdle ==
  /\ slider = 0 /\ checked = [c \in Classes |-> FALSE] /\ output = <<>>
  /\ timers = <<>> /\ strengthText = "" /\ bars = [i \in 1..NumBars |-> ""]
  /\ generateBtnDisabled = FALSE /\ isFirstGenerate = <<TRUE>> /\ clipboard = <<>>
  /\ pendingCopies = <<>> /\ uncaughtError = FALSE

GenInit ==
  /\ UIIdle /\ ScoreIdle
  /\ gLen \in 1..MaxGenLen
  /\ gChk \in ChkSpace \ {[c \in Classes |-> FALSE]}
  /\ gOut = <<>>
  /\ gDone = FALSE
  /\ hRan = FALSE
  /\ AuxIdle
  /\ events = 0

Generate ==
  /\ ~gDone
  /\ gOut' \in GeneratedPasswords(gLen, gChk, GenDrawSpread, GenShuffleSpread)
  /\ gDone' = TRUE
  /\ UNCHANGED <<gLen, gChk, uiVars, scoreVars, hRan, auxVars>>
  /\ UNCHANGED events

GenSpec == GenInit /\ [][Generate]_vars

\* ---------------------------------------------------------------------------
\* ScoreSpec: calculatePasswordStrength applied to bounded strings
ScoreSample == <<"A", "Z", "a", "z", "0", "9", "!", "?", " ">>

\* the characters of ScoreSample at the positions in B, in order, padded to n
\* with the first of them
SampleString(B, n) ==
  LET k == Cardinality(B)
      pick(m) == ScoreSample[CHOOSE i \in B : Cardinality({j \in B : j <= i}) = m]
  IN [m \in 1..n |-> IF m <= k THEN pick(m) ELSE pick(1)]

SpecExamples == {<<"a", "b", "c", "d", "e", "f", "g", "h">>,
                 <<"A", "b", "c", "d", "e", "f", "g", "h", "1", "2">>,
                 <<"A", "b", "3", "!", "A", "b", "3", "!", "A", "b", "3", "!">>}

ScoreInputs ==
  SpecExamples \cup {<<>>} \cup
  {SampleString(B, n) : B \in SUBSET (1..Len(ScoreSample)) \ {{}},
                        n \in 1..MaxScoreLen}

ScoreInit ==
  /\ UIIdle /\ GenIdle
  /\ sIn \in ScoreInputs
  /\ sOut = 0
  /\ sDone = FALSE
  /\ hRan = FALSE
  /\ AuxIdle
  /\ events = 0

Score ==
  /\ ~sDone
  /\ sOut' = calculatePasswordStrength(sIn)
  /\ sDone' = TRUE
  /\ UNCHANGED <<sIn, uiVars, genVars, hRan, auxVars>>
  /\ UNCHANGED events

ScoreSpec == ScoreInit /\ [][Score]_vars
\* ---------------------------------------------------------------------------
\* HandlerSpec: one call of generatePassword from bounded UI states
PriorOutputs == {<<>>, <<"A">>, <<"a", "0">>}

HandlerInit ==
  /\ GenIdle /\ ScoreIdle
  /\ slider \in 0..MaxLen
  /\ checked \in ChkSpace
  /\ output \in PriorOutputs
  /\ timers \in {<<>>} \cup {<<p>> : p \in PriorOutputs \ {<<>>}}
  /\ strengthText \in {"", "Too Weak", "Weak"}
  /\ bars = updateStrengthMeter(calculatePasswordStrength(output), output).bars
  /\ generateBtnDisabled \in BOOLEAN
  /\ isFirstGenerate = <<FALSE>>
  /\ clipboard = <<>>
  /\ pendingCopies = <<>>
  /\ uncaughtError = FALSE
  /\ hRan = FALSE
  /\ AuxIdle
  /\ events = 0

RunGeneratePassword ==
  /\ ~hRan
  /\ ApplyGenerate(slider, checked)
  /\ hRan' = TRUE
  /\ UNCHANGED <<isFirstGenerate, clipboard, pendingCopies, genVars, scoreVars,
                 auxVars, uncaughtError>>
  /\ UNCHANGED events

HandlerSpec == HandlerInit /\ [][RunGeneratePassword]_vars

\* ---------------------------------------------------------------------------
\* ClickSpec: one click of the generate button from bounded UI states
ClickInit ==
  /\ events = 0
  /\ GenIdle /\ ScoreIdle /\ AuxIdle
  /\ slider \in 0..MaxLen
  /\ checked \in ChkSpace
  /\ output \in PriorOutputs
  /\ timers = <<>>
  /\ strengthText = updateStrengthMeter(calculatePasswordStrength(output), output).text
  /\ bars = updateStrengthMeter(calculatePasswordStrength(output), output).bars
  /\ generateBtnDisabled = FALSE
  /\ isFirstGenerate \in UNION {[1..n -> BOOLEAN] : n \in 1..MaxInstances}
  /\ clipboard = <<>>
  /\ pendingCopies = <<>>
  /\ uncaughtError = FALSE
  /\ hRan = FALSE

ClickRun ==
  /\ ~hRan
  /\ GenerateClickEffect
  /\ hRan' = TRUE
  /\ UNCHANGED events

ClickSpec == ClickInit /\ [][ClickRun]_vars

\* ---------------------------------------------------------------------------
\* ShuffleSpec: shuffleString on bounded strings, every Math.random outcome
ShuffleChars == {"a", "b", "c", "d"}

ShuffleInit ==
  /\ events = 0
  /\ UIIdle /\ GenIdle /\ ScoreIdle /\ hRan = FALSE
  /\ shIn \in UNION {[1..n -> ShuffleChars] : n \in 0..MaxShuffleLen}
  /\ shOut = <<>>
  /\ shDone = FALSE
  /\ cIn = "" /\ cOut = [c \in Classes |-> FALSE] /\ cDone = FALSE

\* spread Len(str) makes j range over all of 0..i
Shuffle ==
  /\ ~shDone
  /\ shOut' \in shuffleString(shIn, Len(shIn))
  /\ shDone' = TRUE
  /\ UNCHANGED <<shIn, cIn, cOut, cDone, uiVars, genVars, scoreVars, hRan>>
  /\ UNCHANGED events

ShuffleSpec == ShuffleInit /\ [][Shuffle]_vars

\* ---------------------------------------------------------------------------
\* CharSpec: the scorer's class tests on every printable ASCII character (the
\* double quote, backslash and backtick, which the TLA+ string syntax used here
\* cannot hold, excepted; none of them is in an alphabet or a regex class)
PrintableAscii == {" ", "!", "#", "$", "%", "&", "'", "(", ")", "*", "+", ",", "-", ".", "/", "0", "1", "2", "3", "4", "5", "6", "7", "8", "9", ":", ";", "<", "=", ">", "?", "@", "A", "B", "C", "D", "E", "F", "G", "H", "I", "J", "K", "L", "M", "N", "O", "P", "Q", "R", "S", "T", "U", "V", "W", "X", "Y", "Z", "[", "]", "^", "_", "a", "b", "c", "d", "e", "f", "g", "h", "i", "j", "k", "l", "m", "n", "o", "p", "q", "r", "s", "t", "u", "v", "w", "x", "y", "z", "{", "|", "}", "~"}

CharInit ==
  /\ events = 0
  /\ UIIdle /\ GenIdle /\ ScoreIdle /\ hRan = FALSE
  /\ shIn = <<>> /\ shOut = <<>> /\ shDone = FALSE
  /\ cIn \in PrintableAscii
  /\ cOut = [c \in Classes |-> FALSE]
  /\ cDone = FALSE

Classify ==
  /\ ~cDone
  /\ cOut' = [upper |-> Test(<<cIn>>, UpperRe), lower |-> Test(<<cIn>>, LowerRe),
              numbers |-> Test(<<cIn>>, DigitRe), symbols |-> Test(<<cIn>>, SymbolRe)]
  /\ cDone' = TRUE
  /\ UNCHANGED <<cIn, shIn, shOut, shDone, uiVars, genVars, scoreVars, hRan>>
  /\ UNCHANGED events

CharSpec == CharInit /\ [][Classify]_vars

\* ===========================================================================
\* Properties

Range(f) == {f[i] : i \in DOMAIN f}
NumSelected(chk) == Cardinality({c \in Classes : chk[c]})
ClassAlphabet(c) ==
  CASE c = "upper" -> Range(Uppercase)
    [] c = "lower" -> Range(Lowercase)
    [] c = "numbers" -> Range(Numbers)
    [] c = "symbols" -> Range(Symbols)

\* C1: for every length L >= 1 and non-empty class set C, the generated
\* password has exactly L characters, also when L < |C|.
GenLengthExact == gDone => Len(gOut) = gLen
GenLengthExactWitness == gDone /\ gLen < NumSelected(gChk)

\* C2: when L >= |C|, the generated password contains at least one character
\* of every enabled class.
GenCoverage ==
  (gDone /\ gLen >= NumSelected(gChk)) =>
     \A c \in Classes : gChk[c] => \E i \in 1..Len(gOut) : gOut[i] \in ClassAlphabet(c)
GenCoverageWitness == gDone /\ NumSelected(gChk) = 4 /\ gLen = 5

\* C3: every character of the generated password belongs to the union of the
\* enabled classes' alphabets, and with a single enabled class (e.g. length 5
\* with digits only) the password has exactly the requested length.
GenCharsInUnion ==
  gDone =>
    /\ \A i \in 1..Len(gOut) : \E c \in Classes : gChk[c] /\ gOut[i] \in ClassAlphabet(c)
    /\ NumSelected(gChk) = 1 => Len(gOut) = gLen
GenCharsInUnionWitness ==
  gDone /\ gLen = 5 /\ gChk = [c \in Classes |-> c = "numbers"]

\* C4: a generation with length 0 clears the output, leaves the label blank and
\* enables the generate button, whatever the enabled classes (none included).
ZeroLengthClears ==
  (hRan /\ slider = 0) =>
     /\ output = <<>>
     /\ strengthText = ""
     /\ bars = [i \in 1..NumBars |-> ""]
     /\ ~generateBtnDisabled
ZeroLengthClearsWitness ==
  hRan /\ slider = 0 /\ generateBtnDisabled = FALSE /\ timers # <<>>
  /\ \A c \in Classes : ~checked[c]

\* C5: with length > 0 and no class enabled, the generate button is disabled and
\* no earlier password stays displayed, rated or copyable.
EmptyConfigNoPassword ==
  (slider > 0 /\ \A c \in Classes : ~checked[c]) =>
     (generateBtnDisabled /\ ~HasPassword(output) /\ strengthText = "")

\* C6: calculatePasswordStrength returns an integer in [0,4] for every string,
\* the empty string included.
ScoreInRange == sDone => sOut \in 0..4

\* C7: on non-empty strings over the four alphabets the score equals the
\* reference min(4, length bonuses + (varietyCount - 1) + [digit and symbol]).
OverAlphabets(p) == \A i \in 1..Len(p) : p[i] \in UpperRe \cup LowerRe \cup DigitRe \cup SymbolRe
LengthBonus(p) == (IF Len(p) >= 8 THEN 1 ELSE 0) + (IF Len(p) >= 12 THEN 1 ELSE 0)
                  + (IF Len(p) >= 16 THEN 1 ELSE 0)
Variety(p) == Cardinality({re \in {UpperRe, LowerRe, DigitRe, SymbolRe} : Test(p, re)})
ReferenceScore(p) ==
  Min(4, LengthBonus(p) + Variety(p) - 1
         + (IF Test(p, DigitRe) /\ Test(p, SymbolRe) THEN 1 ELSE 0))
ScoreIsReference ==
  (sDone /\ sIn # <<>> /\ OverAlphabets(sIn)) => sOut = ReferenceScore(sIn)
\* C8: score("abcdefgh") = 1 (Weak), score("Abcdefgh12") = 3 (Strong),
\* score("Ab3!Ab3!Ab3!") = 4 (Very Strong), and a single-class password shorter
\* than 8 scores 0 (Too Weak).
SingleClassShort(p) ==
  Len(p) >= 1 /\ Len(p) < 8 /\ OverAlphabets(p)
  /\ Cardinality({re \in {UpperRe, LowerRe, DigitRe, SymbolRe} : Test(p, re)}) = 1
ScoreExamples ==
  sDone =>
    /\ sIn = <<"a", "b", "c", "d", "e", "f", "g", "h">> =>
          sOut = 1 /\ StrengthText(sOut) = "Weak"
    /\ sIn = <<"A", "b", "c", "d", "e", "f", "g", "h", "1", "2">> =>
          sOut = 3 /\ StrengthText(sOut) = "Strong"
    /\ sIn = <<"A", "b", "3", "!", "A", "b", "3", "!", "A", "b", "3", "!">> =>
          sOut = 4 /\ StrengthText(sOut) = "Very Strong"
    /\ SingleClassShort(sIn) => sOut = 0 /\ StrengthText(sOut) = "Too Weak"

\* C9: once pending timers have fired, the label is the mapping of the displayed
\* password's score, or blank when no password is displayed.
LabelMatchesDisplay ==
  timers = <<>> =>
    /\ output # <<>> => strengthText = StrengthText(calculatePasswordStrength(output))
    /\ output = <<>> => strengthText = ""

\* C10: once pending timers have fired, the displayed password belongs to the
\* latest configuration: empty for length 0, else generated from it.
DisplayMatchesLatestConfig ==
  timers = <<>> =>
    /\ slider = 0 => output = <<>>
    /\ (slider > 0 /\ \E c \in Classes : checked[c]) =>
         output \in GeneratedPasswords(slider, checked, UIDrawSpread, UIShuffleSpread)
\* C11: a click on the generate button, the first one included, generates from
\* the current length and toggles and never replaces them with defaults.
ClickKeepsConfig ==
  [][GenerateClickEffect => (slider' = slider /\ checked' = checked)]_vars
\* C11 (amended): a click keeps the current length and toggles unless some
\* instance has not handled a click yet; then it generates from the defaults
\* (length 8 with uppercase, lowercase and numbers on).
ClickKeepsConfigAfterFirst ==
  [][ClickRun =>
       IF \E k \in 1..Len(isFirstGenerate) : isFirstGenerate[k]
       THEN slider' = FirstClickLength /\ checked' = FirstClickChecked
       ELSE slider' = slider /\ checked' = checked]_vars
ClickKeepsConfigWitness ==
  hRan /\ checked["symbols"] /\ slider < FirstClickLength /\ timers # <<>>
\* C12: Ctrl+Enter or Cmd+Enter generates a new password exactly as a call of
\* generatePassword does.
GeneratesNow ==
  \E r \in GenEffects(slider, checked, output, timers, UIDrawSpread, UIShuffleSpread) :
     /\ output' = r.output
     /\ timers' = r.timers
     /\ strengthText' = r.meter.text
     /\ bars' = r.meter.bars
     /\ generateBtnDisabled' = r.disabled
CtrlEnterGenerates ==
  [][(\E ctrlKey, metaKey, f \in BOOLEAN :
        (ctrlKey \/ metaKey) /\ KeyDown(ctrlKey, metaKey, "Enter", f)) => GeneratesNow]_vars
\* C14: shuffleString returns a permutation of its input, and every permutation
\* is reached by some choice of the swap indices j in [0, i].
RECURSIVE PermutationsOf(_)
PermutationsOf(str) ==
  IF str = <<>> THEN {<<>>}
  ELSE UNION {{SubSeq(q, 1, k) \o <<Head(str)>> \o SubSeq(q, k + 1, Len(q)) : k \in 0..Len(q)} :
                q \in PermutationsOf(Tail(str))}
ShuffleIsPermutation ==
  shDone =>
    /\ shOut \in PermutationsOf(shIn)
    /\ shuffleString(shIn, Len(shIn)) = PermutationsOf(shIn)
ShuffleWitness ==
  shDone /\ Len(shIn) = MaxShuffleLen /\ Cardinality(Range(shIn)) = MaxShuffleLen
  /\ shOut # shIn
\* C15: the number of filled bars is the displayed password's score (none for
\* score 0, none when nothing is displayed), and every filled bar carries the
\* level that matches the label.
FilledBars == {i \in 1..NumBars : bars[i] # ""}
LabelLevel(text) ==
  CASE text = "Too Weak" -> "weak"
    [] text = "Weak" -> "weak"
    [] text = "Medium" -> "medium"
    [] text = "Strong" -> "strong"
    [] OTHER -> "very-strong"
BarsMatchDisplay ==
  /\ output # <<>> => Cardinality(FilledBars) = calculatePasswordStrength(output)
  /\ output = <<>> => FilledBars = {}
  /\ \A i \in FilledBars : bars[i] = LabelLevel(strengthText)
\* C16: the four generator alphabets are pairwise disjoint, the scorer's class
\* tests classify every character as membership in those alphabets does, and
\* the symbol test matches exactly the spec's symbol alphabet.
SpecSymbolAlphabet == {"!", "@", "#", "$", "%", "^", "&", "*", "(", ")", "_", "+", "-",
                       "=", "[", "]", "{", "}", "|", ";", ":", ",", ".", "<", ">", "?"}
ClassTestsMatchAlphabets ==
  cDone =>
    /\ Cardinality({cl \in Classes : cIn \in ClassAlphabet(cl)}) <= 1
    /\ \A cl \in Classes : cOut[cl] <=> cIn \in ClassAlphabet(cl)
    /\ cOut["symbols"] <=> cIn \in SpecSymbolAlphabet
ClassTestsWitness ==
  cDone /\ cIn = "-" /\ cOut["symbols"]
====
